---- MODULE Spec2Model ----
(***************************************************************************)
(* Model of the embedded in-memory store of mini-redis/data.go: a typed    *)
(* key-value map (data), a separate map of expiry instants (ttl), lazy     *)
(* expiration on access (isExpired), a background sweep (expireKeys) and   *)
(* one reader-writer lock (mu).                                            *)
(*                                                                         *)
(* Spec  : every handler is one atomic step (the sequential behaviour of   *)
(*         the command API, as the demo program drives it).                *)
(* SpecC : caller threads and the sweep worker interleave at the           *)
(*         granularity of lock acquisition, map mutation and release.      *)
(***************************************************************************)
EXTENDS Integers, Sequences, FiniteSets, TLC

\* ---------------------------------------------------------------- bounds
MaxTime == 2          \* the clock runs over 0..MaxTime (in ticks)
MaxListLen == 3       \* longest list the model builds

\* ------------------------------------------------------- program constants
TicksPerSecond == 2   \* model resolution of time.Time: two ticks per second

Keys == {"a", "b"}
Vals == {"x", "y"}
Fields == {"f", "g"}
Threads == {"t1", "t2"}
CollKeys == {"a"}     \* the keys the client uses for hashes, lists and sets
ConcKeys == {"a"}     \* the keys the concurrent callers use

Nil == "<nil>"        \* absence of a field in a Go map
NoTTL == -1           \* absence of a key in r.ttl

VARIABLES data, ttl, now, last, panicked, mu, pc, cur, hist

vars == <<data, ttl, now, last, panicked, mu, pc, cur, hist>>

\* ------------------------------------------------------------ value shapes
EmptyHash == [f \in Fields |-> Nil]

Absent == [kind |-> "none", str |-> "", hash |-> EmptyHash, list |-> <<>>, set |-> {}]

StringVal(v) == [Absent EXCEPT !.kind = "string", !.str = v]

HashVal(h) == [Absent EXCEPT !.kind = "hash", !.hash = h]

ListVal(l) == [Absent EXCEPT !.kind = "list", !.list = l]

SetVal(s) == [Absent EXCEPT !.kind = "set", !.set = s]

\* what a call hands back to its caller: ok is the bool result, val the
\* string, n the int, hash and set the collections; err is the "ERROR: ..."
\* line printed on a failed type assertion; path names the return statement
\* the handler left through
\* shared: the returned collection is the stored Go map itself (maps are
\* references), not a copy of it
NoRet ==
    [ok |-> FALSE, val |-> "", n |-> 0, hash |-> EmptyHash, set |-> {}, err |-> FALSE,
     path |-> "", shared |-> FALSE]

Ret(p) == [NoRet EXCEPT !.path = p]

Outcome(d, tt, r, p) == [data |-> d, ttl |-> tt, ret |-> r, panic |-> p]

\* ---------------------------------------------------------------- helpers
\* a comparison that is late by one tick
After_Late(n, e) == n > e + 1

\* time.Now().After(expireTime)
After(n, e) == n > e

\* an isExpired that already answers true at the expiry instant
isExpired_AtInstant(d, tt, n, key) ==
    IF tt[key] # NoTTL /\ n >= tt[key]
    THEN [data |-> [d EXCEPT ![key] = Absent], ttl |-> [tt EXCEPT ![key] = NoTTL], expired |-> TRUE]
    ELSE [data |-> d, ttl |-> tt, expired |-> FALSE]

\* an isExpired that forgets delete(r.ttl, key)
isExpired_KeepsTTL(d, tt, n, key) ==
    IF tt[key] # NoTTL /\ After(n, tt[key])
    THEN [data |-> [d EXCEPT ![key] = Absent], ttl |-> tt, expired |-> TRUE]
    ELSE [data |-> d, ttl |-> tt, expired |-> FALSE]

\* an isExpired that, finding its key expired, deletes every key whose
\* instant has passed
isExpired_AllKeys(d, tt, n, key) ==
    IF tt[key] # NoTTL /\ After(n, tt[key])
    THEN [data |-> [k \in DOMAIN d |-> IF tt[k] # NoTTL /\ After(n, tt[k]) THEN Absent ELSE d[k]],
          ttl |-> [k \in DOMAIN tt |-> IF tt[k] # NoTTL /\ After(n, tt[k]) THEN NoTTL ELSE tt[k]],
          expired |-> TRUE]
    ELSE [data |-> d, ttl |-> tt, expired |-> FALSE]

\* isExpired: deletes the key from both maps when its instant has passed
isExpired(d, tt, n, key) ==
    IF tt[key] # NoTTL /\ After(n, tt[key])
    THEN [data |-> [d EXCEPT ![key] = Absent], ttl |-> [tt EXCEPT ![key] = NoTTL], expired |-> TRUE]
    ELSE [data |-> d, ttl |-> tt, expired |-> FALSE]

\* ------------------------------------------------------- string operations
\* a Set that forgets delete(r.ttl, key)
SetOp_KeepsTTL(d, tt, n, key, value) ==
    Outcome([d EXCEPT ![key] = StringVal(value)], tt, Ret("ok"), FALSE)

\* a Set that leaves a key holding a hash, a list or a set as it is
SetOp_OnlyStrings(d, tt, n, key, value) ==
    IF d[key].kind \in {"none", "string"}
    THEN Outcome([d EXCEPT ![key] = StringVal(value)], [tt EXCEPT ![key] = NoTTL], Ret("ok"), FALSE)
    ELSE Outcome(d, tt, Ret("wrongtype"), FALSE)

SetOp(d, tt, n, key, value) ==
    Outcome([d EXCEPT ![key] = StringVal(value)], [tt EXCEPT ![key] = NoTTL], Ret("ok"), FALSE)

\* a Get that deletes a key it finds holding something other than a string
GetOp_DropsMismatch(d, tt, n, key) ==
    LET e == isExpired(d, tt, n, key) IN
    IF e.expired THEN Outcome(e.data, e.ttl, Ret("expired"), FALSE)
    ELSE IF e.data[key].kind = "none" THEN Outcome(e.data, e.ttl, Ret("missing"), FALSE)
    ELSE IF e.data[key].kind # "string"
    THEN Outcome([e.data EXCEPT ![key] = Absent], [e.ttl EXCEPT ![key] = NoTTL],
                 [Ret("wrongtype") EXCEPT !.err = TRUE], FALSE)
    ELSE Outcome(e.data, e.ttl, [Ret("ok") EXCEPT !.ok = TRUE, !.val = e.data[key].str], FALSE)

GetOp(d, tt, n, key) ==
    LET e == isExpired(d, tt, n, key) IN
    IF e.expired THEN Outcome(e.data, e.ttl, Ret("expired"), FALSE)
    ELSE IF e.data[key].kind = "none" THEN Outcome(e.data, e.ttl, Ret("missing"), FALSE)
    ELSE IF e.data[key].kind # "string"
    THEN Outcome(e.data, e.ttl, [Ret("wrongtype") EXCEPT !.err = TRUE], FALSE)
    ELSE Outcome(e.data, e.ttl, [Ret("ok") EXCEPT !.ok = TRUE, !.val = e.data[key].str], FALSE)

\* --------------------------------------------------------- hash operations
\* a failed type assertion leaves hash nil; the assignment to an entry of a
\* nil map panics
\* an HSet that stores a fresh map holding only the new field
HSetOp_Replace(d, tt, n, key, field, value) ==
    IF d[key].kind = "none" \/ d[key].kind = "hash"
    THEN Outcome([d EXCEPT ![key] = HashVal([EmptyHash EXCEPT ![field] = value])], tt, Ret("ok"), FALSE)
    ELSE Outcome(d, tt, Ret("panic"), TRUE)

HSetOp(d, tt, n, key, field, value) ==
    IF d[key].kind = "none"
    THEN Outcome([d EXCEPT ![key] = HashVal([EmptyHash EXCEPT ![field] = value])], tt, Ret("ok"), FALSE)
    ELSE IF d[key].kind = "hash"
    THEN Outcome([d EXCEPT ![key] = HashVal([d[key].hash EXCEPT ![field] = value])], tt, Ret("ok"), FALSE)
    ELSE Outcome(d, tt, Ret("panic"), TRUE)

HGetOp(d, tt, n, key, field) ==
    LET e == isExpired(d, tt, n, key) IN
    IF e.expired THEN Outcome(e.data, e.ttl, Ret("expired"), FALSE)
    ELSE IF e.data[key].kind = "none" THEN Outcome(e.data, e.ttl, Ret("missing"), FALSE)
    ELSE IF e.data[key].kind # "hash"
    THEN Outcome(e.data, e.ttl, [Ret("wrongtype") EXCEPT !.err = TRUE], FALSE)
    ELSE IF e.data[key].hash[field] = Nil THEN Outcome(e.data, e.ttl, Ret("nofield"), FALSE)
    ELSE Outcome(e.data, e.ttl, [Ret("ok") EXCEPT !.ok = TRUE, !.val = e.data[key].hash[field]], FALSE)

HGetAllOp(d, tt, n, key) ==
    LET e == isExpired(d, tt, n, key) IN
    IF e.expired THEN Outcome(e.data, e.ttl, Ret("expired"), FALSE)
    ELSE IF e.data[key].kind = "none" THEN Outcome(e.data, e.ttl, Ret("missing"), FALSE)
    ELSE IF e.data[key].kind # "hash"
    THEN Outcome(e.data, e.ttl, [Ret("wrongtype") EXCEPT !.err = TRUE], FALSE)
    ELSE Outcome(e.data, e.ttl,
                 [Ret("ok") EXCEPT !.ok = TRUE, !.hash = e.data[key].hash, !.shared = TRUE], FALSE)

\* what the caller finds in the map it was handed by HGetAll on key, once the
\* store holds d: the stored map when the result shares it
Held(r, key, d) == IF r.shared /\ d[key].kind = "hash" THEN d[key].hash ELSE r.hash

\* the store after the caller assigns result[field] = value to the map it was
\* handed by HGetAll on key
CallerWrites(r, key, d, field, value) ==
    IF r.shared /\ d[key].kind = "hash"
    THEN [d EXCEPT ![key] = HashVal([d[key].hash EXCEPT ![field] = value])]
    ELSE d

\* --------------------------------------------------------- list operations
\* a loop that runs forward over values, prepending each in turn
RECURSIVE Prepend_Forward(_, _, _)
Prepend_Forward(list, values, i) ==
    IF i = 0 THEN list
    ELSE Prepend_Forward(<<values[Len(values) - i + 1]>> \o list, values, i - 1)

\* for i := len(values)-1; i >= 0; i-- { list = append([]string{values[i]}, list...) }
RECURSIVE Prepend(_, _, _)
Prepend(list, values, i) ==
    IF i = 0 THEN list ELSE Prepend(<<values[i]>> \o list, values, i - 1)

\* a failed type assertion leaves list nil (empty); the result is stored
\* unconditionally
\* an LPush that also drops the key's expiry record
LPushOp_ClearsTTL(d, tt, n, key, values) ==
    LET list == IF d[key].kind = "list" THEN d[key].list ELSE <<>> IN
    Outcome([d EXCEPT ![key] = ListVal(Prepend(list, values, Len(values)))],
            [tt EXCEPT ![key] = NoTTL], Ret("ok"), FALSE)

LPushOp(d, tt, n, key, values) ==
    LET list == IF d[key].kind = "list" THEN d[key].list ELSE <<>> IN
    Outcome([d EXCEPT ![key] = ListVal(Prepend(list, values, Len(values)))], tt, Ret("ok"), FALSE)

\* an RPop that takes the first element instead of the last
RPopOp_Head(d, tt, n, key) ==
    LET e == isExpired(d, tt, n, key) IN
    IF e.expired THEN Outcome(e.data, e.ttl, Ret("expired"), FALSE)
    ELSE IF e.data[key].kind = "none" THEN Outcome(e.data, e.ttl, Ret("missing"), FALSE)
    ELSE IF e.data[key].kind # "list" \/ Len(e.data[key].list) = 0
    THEN Outcome(e.data, e.ttl, Ret("empty"), FALSE)
    ELSE LET l == e.data[key].list IN
         Outcome([e.data EXCEPT ![key] = ListVal(Tail(l))], e.ttl,
                 [Ret("ok") EXCEPT !.ok = TRUE, !.val = l[1]], FALSE)

\* an RPop that removes the key, entry and record, with its last element
RPopOp_DropsEmpty(d, tt, n, key) ==
    LET e == isExpired(d, tt, n, key) IN
    IF e.expired THEN Outcome(e.data, e.ttl, Ret("expired"), FALSE)
    ELSE IF e.data[key].kind = "none" THEN Outcome(e.data, e.ttl, Ret("missing"), FALSE)
    ELSE IF e.data[key].kind # "list" \/ Len(e.data[key].list) = 0
    THEN Outcome(e.data, e.ttl, Ret("empty"), FALSE)
    ELSE LET l == e.data[key].list IN
         IF Len(l) = 1
         THEN Outcome([e.data EXCEPT ![key] = Absent], [e.ttl EXCEPT ![key] = NoTTL],
                      [Ret("ok") EXCEPT !.ok = TRUE, !.val = l[1]], FALSE)
         ELSE Outcome([e.data EXCEPT ![key] = ListVal(SubSeq(l, 1, Len(l) - 1))], e.ttl,
                      [Ret("ok") EXCEPT !.ok = TRUE, !.val = l[Len(l)]], FALSE)

RPopOp(d, tt, n, key) ==
    LET e == isExpired(d, tt, n, key) IN
    IF e.expired THEN Outcome(e.data, e.ttl, Ret("expired"), FALSE)
    ELSE IF e.data[key].kind = "none" THEN Outcome(e.data, e.ttl, Ret("missing"), FALSE)
    ELSE IF e.data[key].kind # "list" \/ Len(e.data[key].list) = 0
    THEN Outcome(e.data, e.ttl, Ret("empty"), FALSE)
    ELSE LET l == e.data[key].list IN
         Outcome([e.data EXCEPT ![key] = ListVal(SubSeq(l, 1, Len(l) - 1))], e.ttl,
                 [Ret("ok") EXCEPT !.ok = TRUE, !.val = l[Len(l)]], FALSE)

\* ---------------------------------------------------------- set operations
\* a loop that counts every member it is given, present or not
RECURSIVE AddLoop_CountsAll(_, _, _, _)
AddLoop_CountsAll(s, added, members, i) ==
    IF i > Len(members) THEN [set |-> s, added |-> added]
    ELSE AddLoop_CountsAll(s \cup {members[i]}, added + 1, members, i + 1)

\* the loop over members: s is the set so far, added the count so far
RECURSIVE AddLoop(_, _, _, _)
AddLoop(s, added, members, i) ==
    IF i > Len(members) THEN [set |-> s, added |-> added]
    ELSE IF members[i] \notin s THEN AddLoop(s \cup {members[i]}, added + 1, members, i + 1)
    ELSE AddLoop(s, added, members, i + 1)

\* a failed type assertion leaves set nil: reading it yields false, writing
\* to it panics (only reached when there is at least one member)
SAddOp(d, tt, n, key, members) ==
    IF d[key].kind = "none" \/ d[key].kind = "set"
    THEN LET r == AddLoop(d[key].set, 0, members, 1) IN
         Outcome([d EXCEPT ![key] = SetVal(r.set)], tt, [Ret("ok") EXCEPT !.n = r.added], FALSE)
    ELSE IF Len(members) = 0 THEN Outcome(d, tt, Ret("ok"), FALSE)
    ELSE Outcome(d, tt, Ret("panic"), TRUE)

\* the order of the returned slice is the map's iteration order, which is
\* unspecified: the result is modelled as the collection of its elements
SMembersOp(d, tt, n, key) ==
    LET e == isExpired(d, tt, n, key) IN
    IF e.expired THEN Outcome(e.data, e.ttl, Ret("expired"), FALSE)
    ELSE IF e.data[key].kind = "none" THEN Outcome(e.data, e.ttl, Ret("missing"), FALSE)
    ELSE IF e.data[key].kind # "set" THEN Outcome(e.data, e.ttl, Ret("wrongtype"), FALSE)
    ELSE Outcome(e.data, e.ttl, [Ret("ok") EXCEPT !.ok = TRUE, !.set = e.data[key].set], FALSE)

\* ---------------------------------------------------------- ttl operations
ExpireOp(d, tt, n, key, seconds) ==
    IF d[key].kind = "none" THEN Outcome(d, tt, Ret("missing"), FALSE)
    ELSE Outcome(d, [tt EXCEPT ![key] = n + seconds * TicksPerSecond], [Ret("ok") EXCEPT !.ok = TRUE], FALSE)

\* a TTL that answers -1 whenever there is no expiry record, without looking
\* into r.data
TTLOp_NoDataCheck(d, tt, n, key) ==
    IF tt[key] = NoTTL THEN Outcome(d, tt, [Ret("nottl") EXCEPT !.n = -1], FALSE)
    ELSE IF tt[key] - n < 0 THEN Outcome(d, tt, [Ret("expired") EXCEPT !.n = -2], FALSE)
    ELSE Outcome(d, tt, [Ret("ok") EXCEPT !.n = (tt[key] - n) \div TicksPerSecond], FALSE)

\* a TTL that already answers -2 at the expiry instant itself
TTLOp_AtInstant(d, tt, n, key) ==
    IF tt[key] = NoTTL
    THEN IF d[key].kind # "none" THEN Outcome(d, tt, [Ret("nottl") EXCEPT !.n = -1], FALSE)
         ELSE Outcome(d, tt, [Ret("missing") EXCEPT !.n = -2], FALSE)
    ELSE IF tt[key] - n <= 0 THEN Outcome(d, tt, [Ret("expired") EXCEPT !.n = -2], FALSE)
    ELSE Outcome(d, tt, [Ret("ok") EXCEPT !.n = (tt[key] - n) \div TicksPerSecond], FALSE)

\* int(time.Until(expireTime).Seconds()): truncation toward zero
TTLOp(d, tt, n, key) ==
    IF tt[key] = NoTTL
    THEN IF d[key].kind # "none" THEN Outcome(d, tt, [Ret("nottl") EXCEPT !.n = -1], FALSE)
         ELSE Outcome(d, tt, [Ret("missing") EXCEPT !.n = -2], FALSE)
    ELSE IF tt[key] - n < 0 THEN Outcome(d, tt, [Ret("expired") EXCEPT !.n = -2], FALSE)
    ELSE Outcome(d, tt, [Ret("ok") EXCEPT !.n = (tt[key] - n) \div TicksPerSecond], FALSE)

\* ------------------------------------------------------ utility operations
\* one pass of "for key := range r.data { if !r.isExpired(key) ... }"; the
\* deletions touch only the key being visited, so the order of the visit
\* does not change the outcome
\* a range that keeps every key it visits, expired or not
SweepAll_NoFilter(d, tt, n) ==
    [data |-> d, ttl |-> tt, live |-> {k \in Keys : d[k].kind # "none"}]

SweepAll(d, tt, n) ==
    [data |-> [k \in Keys |-> isExpired(d, tt, n, k).data[k]],
     ttl |-> [k \in Keys |-> isExpired(d, tt, n, k).ttl[k]],
     live |-> {k \in Keys : d[k].kind # "none" /\ ~isExpired(d, tt, n, k).expired}]

KeysOp(d, tt, n) ==
    LET s == SweepAll(d, tt, n) IN
    Outcome(s.data, s.ttl, [Ret("ok") EXCEPT !.set = s.live], FALSE)

\* a Del that forgets delete(r.ttl, key)
DelOp_KeepsTTL(d, tt, n, key) ==
    IF d[key].kind # "none"
    THEN Outcome([d EXCEPT ![key] = Absent], tt, [Ret("ok") EXCEPT !.ok = TRUE], FALSE)
    ELSE Outcome(d, tt, Ret("missing"), FALSE)

DelOp(d, tt, n, key) ==
    IF d[key].kind # "none"
    THEN Outcome([d EXCEPT ![key] = Absent], [tt EXCEPT ![key] = NoTTL], [Ret("ok") EXCEPT !.ok = TRUE], FALSE)
    ELSE Outcome(d, tt, Ret("missing"), FALSE)

DBSizeOp(d, tt, n) ==
    LET s == SweepAll(d, tt, n) IN
    Outcome(s.data, s.ttl, [Ret("ok") EXCEPT !.n = Cardinality(s.live)], FALSE)

\* a pass that already removes a key at its expiry instant
expireKeys_AtInstant(d, tt, n) ==
    Outcome([k \in Keys |-> IF tt[k] # NoTTL /\ n >= tt[k] THEN Absent ELSE d[k]],
            [k \in Keys |-> IF tt[k] # NoTTL /\ n >= tt[k] THEN NoTTL ELSE tt[k]],
            NoRet, FALSE)

\* a pass that forgets delete(r.data, key)
expireKeys_KeepsData(d, tt, n) ==
    Outcome(d, [k \in Keys |-> IF tt[k] # NoTTL /\ After(n, tt[k]) THEN NoTTL ELSE tt[k]],
            NoRet, FALSE)

\* one pass of the background loop: for key, expireTime := range r.ttl
expireKeys(d, tt, n) ==
    Outcome([k \in Keys |-> IF tt[k] # NoTTL /\ After(n, tt[k]) THEN Absent ELSE d[k]],
            [k \in Keys |-> IF tt[k] # NoTTL /\ After(n, tt[k]) THEN NoTTL ELSE tt[k]],
            NoRet, FALSE)

\* ------------------------------------------------------------------ state
\* what the completed calls on a key amount to: the value of the latest
\* completed Set (Nil when there is none, or a Del has succeeded since), and
\* whether no Expire has succeeded since that Set
NoHist == [val |-> Nil, firm |-> FALSE]

NoCall == [op |-> "none", key |-> "", ret |-> NoRet]

Call(o, k, r) == [op |-> o, key |-> k, ret |-> r]

Unlocked == [writer |-> "none", readers |-> {}, pending |-> {}]

Workers == Threads \cup {"sweeper"}

Init ==
    /\ data = [k \in Keys |-> Absent]
    /\ ttl = [k \in Keys |-> NoTTL]
    /\ now = 0
    /\ last = NoCall
    /\ panicked = FALSE
    /\ mu = Unlocked
    /\ pc = [t \in Workers |-> "idle"]
    /\ cur = [t \in Workers |-> NoCall]
    /\ hist = [k \in Keys |-> NoHist]

\* argument lists of the variadic calls: none, one or two values
ArgLists == {<<>>} \cup {<<v>> : v \in Vals} \cup {<<v, w>> : v, w \in Vals}

\* arguments of Expire
Seconds == {0, 1}

\* the client program is between two calls and the process is running
Ready == ~panicked /\ last = NoCall

\* a handler called by the client program that ran to completion (or
\* panicked, which ends the process); last is what the caller now holds
Apply(o, op, key) ==
    /\ data' = o.data
    /\ ttl' = o.ttl
    /\ panicked' = o.panic
    /\ last' = Call(op, key, o.ret)
    /\ UNCHANGED <<now, mu, pc, cur, hist>>

Set(key, value) ==
    /\ Ready
    /\ Apply(SetOp(data, ttl, now, key, value), "Set", key)

Get(key) ==
    /\ Ready
    /\ Apply(GetOp(data, ttl, now, key), "Get", key)

HSet(key, field, value) ==
    /\ Ready
    /\ Apply(HSetOp(data, ttl, now, key, field, value), "HSet", key)

HGet(key, field) ==
    /\ Ready
    /\ Apply(HGetOp(data, ttl, now, key, field), "HGet", key)

HGetAll(key) ==
    /\ Ready
    /\ Apply(HGetAllOp(data, ttl, now, key), "HGetAll", key)

LPush(key, values) ==
    /\ Ready
    /\ Len(values) + (IF data[key].kind = "list" THEN Len(data[key].list) ELSE 0) <= MaxListLen
    /\ Apply(LPushOp(data, ttl, now, key, values), "LPush", key)

RPop(key) ==
    /\ Ready
    /\ Apply(RPopOp(data, ttl, now, key), "RPop", key)

SAdd(key, members) ==
    /\ Ready
    /\ Apply(SAddOp(data, ttl, now, key, members), "SAdd", key)

SMembers(key) ==
    /\ Ready
    /\ Apply(SMembersOp(data, ttl, now, key), "SMembers", key)

Expire(key, seconds) ==
    /\ Ready
    /\ Apply(ExpireOp(data, ttl, now, key, seconds), "Expire", key)

TTL(key) ==
    /\ Ready
    /\ Apply(TTLOp(data, ttl, now, key), "TTL", key)

KeysCmd ==
    /\ Ready
    /\ Apply(KeysOp(data, ttl, now), "Keys", "")

Del(key) ==
    /\ Ready
    /\ Apply(DelOp(data, ttl, now, key), "Del", key)

DBSize ==
    /\ Ready
    /\ Apply(DBSizeOp(data, ttl, now), "DBSize", "")

\* the caller takes the result and goes on to its next call
Return ==
    /\ ~panicked
    /\ last # NoCall
    /\ last' = NoCall
    /\ UNCHANGED <<data, ttl, now, panicked, mu, pc, cur, hist>>

\* one tick of the background worker's ticker: a whole pass under mu.Lock,
\* between two calls of the client
Sweep ==
    /\ ~panicked
    /\ last = NoCall
    /\ data' = expireKeys(data, ttl, now).data
    /\ ttl' = expireKeys(data, ttl, now).ttl
    /\ UNCHANGED <<now, last, panicked, mu, pc, cur, hist>>

\* the wall clock advances
Tick ==
    /\ ~panicked
    /\ last = NoCall
    /\ now < MaxTime
    /\ now' = now + 1
    /\ UNCHANGED <<data, ttl, last, panicked, mu, pc, cur, hist>>

Next ==
    \/ \E k \in Keys, v \in Vals : Set(k, v)
    \/ \E k \in Keys : Get(k)
    \/ \E k \in CollKeys, f \in Fields, v \in Vals : HSet(k, f, v)
    \/ \E k \in CollKeys, f \in Fields : HGet(k, f)
    \/ \E k \in CollKeys : HGetAll(k)
    \/ \E k \in CollKeys, vs \in ArgLists : LPush(k, vs)
    \/ \E k \in CollKeys : RPop(k)
    \/ \E k \in CollKeys, ms \in ArgLists : SAdd(k, ms)
    \/ \E k \in CollKeys : SMembers(k)
    \/ \E k \in Keys, s \in Seconds : Expire(k, s)
    \/ \E k \in Keys : TTL(k)
    \/ KeysCmd
    \/ \E k \in Keys : Del(k)
    \/ DBSize
    \/ Return
    \/ Sweep
    \/ Tick

Spec == Init /\ [][Next]_vars

TypeOK ==
    /\ \A k \in Keys : data[k].kind \in {"none", "string", "hash", "list", "set"}
    /\ \A k \in Keys : ttl[k] \in {NoTTL} \cup (0..(MaxTime + TicksPerSecond))
    /\ now \in 0..MaxTime

\* ------------------------------------------------- concurrent callers
\* Caller threads and the background worker interleave. A thread is idle, or
\* has asked for the write lock ("waitW"), or holds it ("crit"), or holds the
\* read lock and is about to run isExpired ("check"), is inside isExpired
\* before its first or its second delete ("delData", "delTTL"), is about to
\* read the maps and return ("read"), or has returned with its result ("ret").
WriteOps == {"Set", "Expire", "Del", "RPop"}

ReadOps == {"Get", "TTL", "Keys", "DBSize"}

\* the calls the threads issue: op, key and arguments
ConcCalls ==
    {[op |-> "Set", key |-> k, val |-> v, secs |-> 0] : k \in ConcKeys, v \in Vals}
        \cup {[op |-> o, key |-> k, val |-> "", secs |-> 0] :
                  o \in {"Expire", "Del", "RPop", "Get", "TTL"}, k \in ConcKeys}
        \cup {[op |-> o, key |-> "", val |-> "", secs |-> 0] : o \in {"Keys", "DBSize"}}

\* a thread's locals: the call, the keys its range has still to visit (todo),
\* the keys it has kept (acc) and its result; seen is what the completed calls
\* on the key amounted to when a Get took the read lock
NoFrame ==
    [op |-> "none", key |-> "", val |-> "", secs |-> 0, todo |-> {}, acc |-> {},
     ret |-> NoRet, seen |-> NoHist]

Frame(c, todo) == [NoFrame EXCEPT !.op = c.op, !.key = c.key, !.val = c.val, !.secs = c.secs, !.todo = todo]

InitC ==
    /\ data = [k \in Keys |-> Absent]
    /\ ttl = [k \in Keys |-> NoTTL]
    /\ now = 0
    /\ last = NoCall
    /\ panicked = FALSE
    /\ mu = [writer |-> "none", readers |-> {}, pending |-> {}]
    /\ pc = [t \in Workers |-> "idle"]
    /\ cur = [t \in Workers |-> NoFrame]
    /\ hist = [k \in Keys |-> NoHist]

\* mu.Lock() is called: the writer announces itself, readers arriving later wait
CallW(t, c) ==
    /\ ~panicked /\ pc[t] = "idle" /\ c.op \in WriteOps
    /\ pc' = [pc EXCEPT ![t] = "waitW"]
    /\ cur' = [cur EXCEPT ![t] = Frame(c, {})]
    /\ mu' = [mu EXCEPT !.pending = @ \cup {t}]
    /\ UNCHANGED <<data, ttl, now, last, panicked, hist>>

\* the ticker fires and the background worker calls mu.Lock()
SweepCall ==
    /\ ~panicked /\ pc["sweeper"] = "idle"
    /\ pc' = [pc EXCEPT !["sweeper"] = "waitW"]
    /\ mu' = [mu EXCEPT !.pending = @ \cup {"sweeper"}]
    /\ UNCHANGED <<data, ttl, now, last, panicked, cur, hist>>

\* mu.Lock() returns: no reader and no writer holds the lock
\* a mu.Lock() that does not wait for the readers to leave
AcquireW_PastReaders(t) ==
    /\ ~panicked /\ pc[t] = "waitW"
    /\ mu.writer = "none"
    /\ mu' = [mu EXCEPT !.writer = t, !.pending = @ \ {t}]
    /\ pc' = [pc EXCEPT ![t] = "crit"]
    /\ UNCHANGED <<data, ttl, now, last, panicked, cur, hist>>

AcquireW(t) ==
    /\ ~panicked /\ pc[t] = "waitW"
    /\ mu.writer = "none" /\ mu.readers = {}
    /\ mu' = [mu EXCEPT !.writer = t, !.pending = @ \ {t}]
    /\ pc' = [pc EXCEPT ![t] = "crit"]
    /\ UNCHANGED <<data, ttl, now, last, panicked, cur, hist>>

\* a write section in which the assignment of Set is lost
WriteOutcome_LostSet(f) ==
    CASE f.op = "Set" -> Outcome(data, ttl, Ret("ok"), FALSE)
      [] f.op = "Expire" -> ExpireOp(data, ttl, now, f.key, f.secs)
      [] f.op = "Del" -> DelOp(data, ttl, now, f.key)
      [] f.op = "RPop" -> RPopOp(data, ttl, now, f.key)

WriteOutcome(f) ==
    CASE f.op = "Set" -> SetOp(data, ttl, now, f.key, f.val)
      [] f.op = "Expire" -> ExpireOp(data, ttl, now, f.key, f.secs)
      [] f.op = "Del" -> DelOp(data, ttl, now, f.key)
      [] f.op = "RPop" -> RPopOp(data, ttl, now, f.key)

\* the completed calls once the write f has returned r
Completed(f, r) ==
    CASE f.op = "Set" -> [hist EXCEPT ![f.key] = [val |-> f.val, firm |-> TRUE]]
      [] f.op = "Expire" -> IF r.ok THEN [hist EXCEPT ![f.key].firm = FALSE] ELSE hist
      [] f.op = "Del" -> IF r.ok THEN [hist EXCEPT ![f.key] = NoHist] ELSE hist
      [] f.op = "RPop" -> hist

\* the body of a write handler and its deferred mu.Unlock()
WriteDone(t) ==
    /\ ~panicked /\ pc[t] = "crit"
    /\ LET o == WriteOutcome(cur[t]) IN
           /\ data' = o.data
           /\ ttl' = o.ttl
           /\ panicked' = o.panic
           /\ cur' = [cur EXCEPT ![t].ret = o.ret]
           /\ hist' = Completed(cur[t], o.ret)
    /\ mu' = [mu EXCEPT !.writer = "none"]
    /\ pc' = [pc EXCEPT ![t] = "ret"]
    /\ UNCHANGED <<now, last>>

\* one pass of expireKeys and its mu.Unlock()
SweepDone ==
    /\ ~panicked /\ pc["sweeper"] = "crit"
    /\ data' = expireKeys(data, ttl, now).data
    /\ ttl' = expireKeys(data, ttl, now).ttl
    /\ mu' = [mu EXCEPT !.writer = "none"]
    /\ pc' = [pc EXCEPT !["sweeper"] = "idle"]
    /\ UNCHANGED <<now, last, panicked, cur, hist>>

\* mu.RLock() returns: no writer holds or awaits the lock. Get goes on to
\* isExpired(key), TTL to its reads, Keys and DBSize start their range over
\* r.data
CallR(t, c) ==
    /\ ~panicked /\ pc[t] = "idle" /\ c.op \in ReadOps
    /\ mu.writer = "none" /\ mu.pending = {}
    /\ mu' = [mu EXCEPT !.readers = @ \cup {t}]
    /\ cur' = [cur EXCEPT ![t] =
                  [Frame(c, IF c.op \in {"Keys", "DBSize"}
                            THEN {k \in Keys : data[k].kind # "none"} ELSE {})
                      EXCEPT !.seen = IF c.op = "Get" THEN hist[c.key] ELSE NoHist]]
    /\ pc' = [pc EXCEPT ![t] =
                 IF c.op = "Get" THEN "check"
                 ELSE IF c.op = "TTL" THEN "read"
                 ELSE IF \E k \in Keys : data[k].kind # "none" THEN "next" ELSE "read"]
    /\ UNCHANGED <<data, ttl, now, last, panicked, hist>>

\* the range of Keys or DBSize produces its next key; a key that another
\* reader has deleted meanwhile is not produced
RangeNext(t, k) ==
    /\ ~panicked /\ pc[t] = "next" /\ k \in cur[t].todo
    /\ IF data[k].kind = "none"
       THEN /\ cur' = [cur EXCEPT ![t].todo = @ \ {k}]
            /\ pc' = [pc EXCEPT ![t] = IF cur[t].todo = {k} THEN "read" ELSE "next"]
       ELSE /\ cur' = [cur EXCEPT ![t].todo = @ \ {k}, ![t].key = k]
            /\ pc' = [pc EXCEPT ![t] = "check"]
    /\ UNCHANGED <<data, ttl, now, last, panicked, mu, hist>>

\* where a reader goes when isExpired(cur.key) has returned
AfterCheck(f) ==
    IF f.op = "Get" THEN "read"
    ELSE IF f.todo = {} THEN "read" ELSE "next"

\* isExpired up to its test of r.ttl[key] against time.Now()
Check(t) ==
    /\ ~panicked /\ pc[t] = "check"
    /\ IF ttl[cur[t].key] # NoTTL /\ After(now, ttl[cur[t].key])
       THEN /\ pc' = [pc EXCEPT ![t] = "delData"]
            /\ cur' = cur
       ELSE /\ pc' = [pc EXCEPT ![t] = AfterCheck(cur[t])]
            /\ cur' = [cur EXCEPT ![t].acc = @ \cup {cur[t].key}]
    /\ UNCHANGED <<data, ttl, now, last, panicked, mu, hist>>

\* another thread holds the read lock and is about to touch the maps
Racing(t) == \E u \in mu.readers \ {t} : pc[u] \in {"next", "check", "delData", "delTTL", "read"}

\* delete(r.data, key) inside isExpired, under the read lock. When another
\* reader touches the maps at the same time, the Go runtime either stops the
\* process ("fatal error: concurrent map read and map write") or does not
\* notice the race
DelData(t, fatal) ==
    /\ ~panicked /\ pc[t] = "delData"
    /\ fatal => Racing(t)
    /\ panicked' = fatal
    /\ data' = IF fatal THEN data ELSE [data EXCEPT ![cur[t].key] = Absent]
    /\ pc' = [pc EXCEPT ![t] = "delTTL"]
    /\ UNCHANGED <<ttl, now, last, mu, cur, hist>>

\* delete(r.ttl, key) and the return of isExpired with true: Get returns
\* not-found and releases the read lock, Keys and DBSize skip the key
DelTTL(t, fatal) ==
    /\ ~panicked /\ pc[t] = "delTTL"
    /\ fatal => Racing(t)
    /\ panicked' = fatal
    /\ ttl' = IF fatal THEN ttl ELSE [ttl EXCEPT ![cur[t].key] = NoTTL]
    /\ IF cur[t].op = "Get"
       THEN /\ pc' = [pc EXCEPT ![t] = "ret"]
            /\ cur' = [cur EXCEPT ![t].ret = Ret("expired")]
            /\ mu' = [mu EXCEPT !.readers = @ \ {t}]
       ELSE /\ pc' = [pc EXCEPT ![t] = AfterCheck(cur[t])]
            /\ UNCHANGED <<cur, mu>>
    /\ UNCHANGED <<data, now, last, hist>>

\* what a reader returns once isExpired is behind it
ReadResult(f) ==
    CASE f.op = "Get" ->
             IF data[f.key].kind = "none" THEN Ret("missing")
             ELSE IF data[f.key].kind # "string" THEN [Ret("wrongtype") EXCEPT !.err = TRUE]
             ELSE [Ret("ok") EXCEPT !.ok = TRUE, !.val = data[f.key].str]
      [] f.op = "TTL" -> TTLOp(data, ttl, now, f.key).ret
      [] f.op = "Keys" -> [Ret("ok") EXCEPT !.set = f.acc]
      [] f.op = "DBSize" -> [Ret("ok") EXCEPT !.n = Cardinality(f.acc)]

\* the rest of a read handler and its deferred mu.RUnlock()
ReadDone(t) ==
    /\ ~panicked /\ pc[t] = "read"
    /\ cur' = [cur EXCEPT ![t].ret = ReadResult(cur[t])]
    /\ mu' = [mu EXCEPT !.readers = @ \ {t}]
    /\ pc' = [pc EXCEPT ![t] = "ret"]
    /\ UNCHANGED <<data, ttl, now, last, panicked, hist>>

\* the caller takes the result and goes on to its next call
Resume(t) ==
    /\ ~panicked /\ pc[t] = "ret"
    /\ pc' = [pc EXCEPT ![t] = "idle"]
    /\ cur' = [cur EXCEPT ![t] = NoFrame]
    /\ UNCHANGED <<data, ttl, now, last, panicked, mu, hist>>

NextC ==
    \/ \E t \in Threads, c \in ConcCalls : CallW(t, c)
    \/ SweepCall
    \/ \E t \in Workers : AcquireW(t)
    \/ \E t \in Threads : WriteDone(t)
    \/ SweepDone
    \/ \E t \in Threads, c \in ConcCalls : CallR(t, c)
    \/ \E t \in Threads, k \in Keys : RangeNext(t, k)
    \/ \E t \in Threads : Check(t)
    \/ \E t \in Threads, fatal \in BOOLEAN : DelData(t, fatal)
    \/ \E t \in Threads, fatal \in BOOLEAN : DelTTL(t, fatal)
    \/ \E t \in Threads : ReadDone(t)
    \/ \E t \in Threads : Resume(t)
    \/ Tick

SpecC == InitC /\ [][NextC]_vars

\* The background worker is scheduled fairly: its ticker keeps firing, a
\* mu.Lock() that can return does return, and a pass that has started ends.
\* Nothing is assumed about the callers or about the clock.
SweepFair ==
    /\ WF_vars(SweepCall)
    /\ WF_vars(AcquireW("sweeper"))
    /\ WF_vars(SweepDone)

SpecL == InitC /\ [][NextC]_vars /\ SweepFair

\* Every thread that is inside a handler keeps running, and the guard is
\* fair: a mu.Lock() that can return again and again does return. Nothing is
\* assumed about when callers make their calls.
CallFair ==
    \A t \in Threads :
        /\ SF_vars(AcquireW(t))
        /\ WF_vars(WriteDone(t))
        /\ WF_vars(\E k \in Keys : RangeNext(t, k))
        /\ WF_vars(Check(t))
        /\ WF_vars(\E fatal \in BOOLEAN : DelData(t, fatal))
        /\ WF_vars(\E fatal \in BOOLEAN : DelTTL(t, fatal))
        /\ WF_vars(ReadDone(t))

SpecF == InitC /\ [][NextC]_vars /\ SweepFair /\ CallFair

\* ------------------------------------------------------ a list as a queue
\* The program of the README's "List as Queue" experiment and of the demo's
\* list section: a producer makes LPush calls on a fresh store, each with one
\* value or with several, then a consumer calls RPop until it answers
\* not-found. The program keeps what it pushed (one entry per call) and what
\* it got back, in order.
Batches == UNION {[1..m -> Vals] : m \in 1..MaxListLen}

RECURSIVE Flat(_)
Flat(bs) == IF bs = <<>> THEN <<>> ELSE bs[1] \o Flat(Tail(bs))

Reverse(s) == [i \in 1..Len(s) |-> s[Len(s) + 1 - i]]

Main == "t1"

QueueProgram(k) == [key |-> k, pushed |-> <<>>, got |-> <<>>]

InitQ ==
    /\ data = [k \in Keys |-> Absent]
    /\ ttl = [k \in Keys |-> NoTTL]
    /\ now = 0
    /\ last = NoCall
    /\ panicked = FALSE
    /\ mu = Unlocked
    /\ hist = [k \in Keys |-> NoHist]
    /\ pc = [t \in Workers |-> IF t = Main THEN "produce" ELSE "idle"]
    /\ \E k \in CollKeys :
           cur = [t \in Workers |-> IF t = Main THEN QueueProgram(k) ELSE NoFrame]

\* redis.LPush("queue", values...)
Producer(values) ==
    /\ pc[Main] = "produce"
    /\ Len(Flat(cur[Main].pushed)) + Len(values) <= MaxListLen
    /\ LET o == LPushOp(data, ttl, now, cur[Main].key, values) IN
           /\ data' = o.data
           /\ ttl' = o.ttl
           /\ panicked' = o.panic
           /\ last' = Call("LPush", cur[Main].key, o.ret)
    /\ cur' = [cur EXCEPT ![Main].pushed = Append(@, values)]
    /\ UNCHANGED <<now, mu, pc, hist>>

\* if task, ok := redis.RPop("queue"); ok { ... }
Consumer ==
    /\ pc[Main] \in {"produce", "consume"}
    /\ cur[Main].pushed # <<>>
    /\ LET o == RPopOp(data, ttl, now, cur[Main].key) IN
           /\ data' = o.data
           /\ ttl' = o.ttl
           /\ panicked' = o.panic
           /\ last' = Call("RPop", cur[Main].key, o.ret)
           /\ cur' = [cur EXCEPT ![Main].got = IF o.ret.ok THEN Append(@, o.ret.val) ELSE @]
           /\ pc' = [pc EXCEPT ![Main] = IF o.ret.ok THEN "consume" ELSE "done"]
    /\ UNCHANGED <<now, mu, hist>>

NextQ ==
    \/ \E values \in Batches : Producer(values)
    \/ Consumer

SpecQ == InitQ /\ [][NextQ]_vars

\* ----------------------------------------------------- vocabulary of claims
\* the key has an entry in r.data
Stored(k) == data[k].kind # "none"

\* the key's recorded expiry instant is strictly before the current time
Passed(k) == ttl[k] # NoTTL /\ ttl[k] < now

Live(k) == Stored(k) /\ ~Passed(k)

\* this step is a call of op on key k (its result is in last')
Called(op, k) == last = NoCall /\ last'.op = op /\ last'.key = k

KeyReads == {"Get", "HGet", "HGetAll", "SMembers"}

\* C1: type isolation. After Set(K, v), HSet(K, f, w) returns to its caller
\* having changed nothing, and a following Get(K) returns (v, found).
C1_Step ==
    \A k \in Keys :
        (Called("HSet", k) /\ data[k].kind = "string" /\ ttl[k] = NoTTL) =>
            /\ ~panicked'
            /\ data' = data /\ ttl' = ttl
            /\ GetOp(data', ttl', now', k).ret.ok
            /\ GetOp(data', ttl', now', k).ret.val = data[k].str

C1_TypeIsolation == [][C1_Step]_vars

\* C2: no operation panics or terminates the process, in any reachable state
\* and for any arguments.
C2_NoPanic == ~panicked

\* C3: LPush on a live key holding a non-list value and SAdd on a live key
\* holding a non-set value leave that key's value and expiry record as they were.
C3_Step ==
    \A k \in Keys :
        /\ (Called("LPush", k) /\ Live(k) /\ data[k].kind # "list") =>
               (data'[k] = data[k] /\ ttl'[k] = ttl[k])
        /\ (Called("SAdd", k) /\ Live(k) /\ data[k].kind # "set") =>
               (data'[k] = data[k] /\ ttl'[k] = ttl[k])

C3_MismatchKeepsValue == [][C3_Step]_vars

\* the keys a Keys call made at instant n on the current maps would list, and
\* the count a DBSize call would return
ListedAt(d, tt, n) == KeysOp(d, tt, n).ret.set

CountedAt(d, tt, n) == DBSizeOp(d, tt, n).ret.n

\* C4: expiry correctness. A key whose expiry instant is strictly in the past
\* is absent for Get, HGet, HGetAll, SMembers (not found), TTL (-2), Keys (not
\* listed) and DBSize (not counted), swept or not; and a Keys or DBSize call
\* made at any later instant on the maps the read left behind excludes it too.
C4_Step ==
    \A k \in Keys :
        Passed(k) =>
            /\ (\E op \in KeyReads : Called(op, k)) => ~last'.ret.ok
            /\ Called("TTL", k) => last'.ret.n = -2
            /\ Called("Keys", "") => k \notin last'.ret.set
            /\ Called("DBSize", "") =>
                   last'.ret.n <= Cardinality({j \in Keys : Stored(j) /\ ~Passed(j)})
            /\ ((\E op \in KeyReads \cup {"TTL"} : Called(op, k))
                    \/ Called("Keys", "") \/ Called("DBSize", "")) =>
                   \A n2 \in now'..MaxTime :
                       /\ k \notin ListedAt(data', ttl', n2)
                       /\ CountedAt(data', ttl', n2)
                              <= Cardinality({j \in Keys \ {k} : data'[j].kind # "none"})

C4_ExpiryCorrectness == [][C4_Step]_vars

\* a TTL call has just answered -2 for a key that is expired but still stored
\* (neither a read nor the sweep has removed it)
C4_Witness ==
    \E k \in Keys :
        /\ last.op = "TTL" /\ last.key = k /\ last.ret.n = -2
        /\ Stored(k) /\ Passed(k)

\* two threads are inside isExpired's deletes at once
TwoMutators ==
    \E t, u \in Threads : t # u /\ pc[t] \in {"delData", "delTTL"} /\ pc[u] \in {"delData", "delTTL"}

\* C5: the data and expiry maps are mutated only by a thread that holds the
\* guard exclusively; a read that finds an expired key never deletes it under
\* the shared lock, so two threads never mutate the maps at the same time.
C5_Step ==
    /\ (data' # data \/ ttl' # ttl) => mu.writer # "none"
    /\ ~TwoMutators'

C5_ExclusiveMutation == [][C5_Step]_vars

\* C6: HSet, LPush and SAdd on a key whose expiry instant has passed but which
\* is still stored behave as on an absent key: the value holds only what the
\* call wrote and the key is live afterwards.
C6_Step ==
    \A k \in Keys :
        (Stored(k) /\ Passed(k)) =>
            /\ Called("HSet", k) =>
                   /\ ~panicked'
                   /\ data'[k].kind = "hash"
                   /\ Cardinality({f \in Fields : data'[k].hash[f] # Nil}) = 1
                   /\ ~(ttl'[k] # NoTTL /\ ttl'[k] < now')
            /\ Called("LPush", k) =>
                   /\ \E vs \in ArgLists : data'[k] = ListVal(vs)
                   /\ ~(ttl'[k] # NoTTL /\ ttl'[k] < now')
            /\ Called("SAdd", k) =>
                   /\ ~panicked'
                   /\ data'[k].kind = "set"
                   /\ Cardinality(data'[k].set) = last'.ret.n
                   /\ ~(ttl'[k] # NoTTL /\ ttl'[k] < now')

C6_WriteOnExpired == [][C6_Step]_vars

\* C7: Expire returns false and changes no expiry record when the key has no
\* live entry (absent, or stored with its instant passed); on a live key it
\* returns true and records now + seconds.
C7_Step ==
    \A k \in Keys :
        Called("Expire", k) =>
            IF Live(k)
            THEN /\ last'.ret.ok
                 /\ \E s \in Seconds : ttl'[k] = now + s * TicksPerSecond
            ELSE ~last'.ret.ok /\ ttl' = ttl

C7_ExpireOnlyLive == [][C7_Step]_vars

\* C8: lazy expiration is destructive. When Get, HGet, HGetAll, SMembers or
\* RPop is called on a key whose expiry instant has passed, and when Keys or
\* DBSize runs while such a key is stored, the key is in neither map on return.
C8_Step ==
    \A k \in Keys :
        Passed(k) =>
            /\ (\E op \in KeyReads \cup {"RPop"} : Called(op, k)) =>
                   (data'[k] = Absent /\ ttl'[k] = NoTTL)
            /\ (Called("Keys", "") \/ Called("DBSize", "")) =>
                   (data'[k] = Absent /\ ttl'[k] = NoTTL)

C8_LazyDestructive == [][C8_Step]_vars

\* a Get has just returned through the isExpired branch and the key is gone
\* from both maps
C8_Witness ==
    \E k \in Keys :
        /\ last.op = "Get" /\ last.key = k /\ last.ret.path = "expired"
        /\ data[k] = Absent /\ ttl[k] = NoTTL

\* C9: TTL on a key whose expiry instant has passed returns -2 and removes the
\* key from both maps.
C9_Step ==
    \A k \in Keys :
        (Called("TTL", k) /\ Passed(k)) =>
            /\ last'.ret.n = -2
            /\ data'[k] = Absent /\ ttl'[k] = NoTTL

C9_TTLRemoves == [][C9_Step]_vars

\* C10: TTL answers a non-negative remaining time for a live key with an
\* expiry record, -1 for a live key without one, -2 for a key that is absent
\* (or expired); a key with no entry never gets -1 or a non-negative answer.
C10_Step ==
    \A k \in Keys :
        Called("TTL", k) =>
            /\ (Live(k) /\ ttl[k] # NoTTL) =>
                   (last'.ret.n >= 0 /\ last'.ret.n * TicksPerSecond <= ttl[k] - now)
            /\ (Live(k) /\ ttl[k] = NoTTL) => last'.ret.n = -1
            /\ ~Live(k) => last'.ret.n = -2
            /\ ~Stored(k) => last'.ret.n = -2

C10_TTLOutcomes == [][C10_Step]_vars

\* TTL has just answered a remaining time for a live key with a record
C10_Witness ==
    \E k \in Keys :
        /\ last.op = "TTL" /\ last.key = k /\ last.ret.n >= 0
        /\ Stored(k) /\ ttl[k] # NoTTL /\ ~Passed(k)

\* C11: TTL reset on overwrite. A Set on a key (in particular one that was Set
\* and then given an expiry of s > 0 seconds) leaves it with no expiry record:
\* TTL answers -1 at every later instant, and neither the lazy check nor the
\* background pass removes the key; a key without a record gets one only from
\* an Expire call and loses its entry only to a Del call.
C11_Step ==
    \A k \in Keys :
        /\ Called("Set", k) =>
               /\ ttl'[k] = NoTTL
               /\ \A n \in now'..(MaxTime + 1) :
                      /\ TTLOp(data', ttl', n, k).ret.n = -1
                      /\ ~isExpired(data', ttl', n, k).expired
                      /\ expireKeys(data', ttl', n).data[k] = data'[k]
        /\ (Stored(k) /\ ttl[k] = NoTTL /\ ttl'[k] # NoTTL) => Called("Expire", k)
        /\ (Stored(k) /\ ttl[k] = NoTTL /\ ~Called("Expire", k) /\ data'[k] = Absent) =>
               Called("Del", k)

GetReturns(t) == cur[t].op = "Get" /\ pc[t] # "ret" /\ pc'[t] = "ret"

\* C12: concurrent correctness of Set and Get. A Get that finds a value
\* returns the value of the latest Set on its key that had completed when the
\* Get took the read lock (so never a value that was not written and never an
\* earlier one), and it does find that value unless a Del or an Expire on the
\* key has succeeded since that Set.
C12_Step ==
    \A t \in Threads :
        GetReturns(t) =>
            /\ cur'[t].ret.ok => cur'[t].ret.val = cur[t].seen.val
            /\ (cur[t].seen.val # Nil /\ cur[t].seen.firm) =>
                   (cur'[t].ret.ok /\ cur'[t].ret.val = cur[t].seen.val)

C12_SetGetLinearizable == [][C12_Step]_vars

\* a Get has returned the value of the latest completed Set while the other
\* thread waits for the write lock with a Set of a different value
C12_Witness ==
    \E t \in Threads, u \in Threads :
        /\ t # u
        /\ pc[t] = "ret" /\ cur[t].op = "Get" /\ cur[t].ret.ok
        /\ cur[t].ret.val = hist[cur[t].key].val
        /\ pc[u] = "waitW" /\ cur[u].op = "Set" /\ cur[u].key = cur[t].key
        /\ cur[u].val # cur[t].ret.val

\* a caller has a call in progress that touches key k (Keys and DBSize visit
\* every key)
Accessed(k) ==
    \E t \in Threads :
        /\ pc[t] \notin {"idle", "ret"}
        /\ cur[t].key = k \/ cur[t].op \in {"Keys", "DBSize"}

Removed(k) == data[k] = Absent /\ ttl[k] = NoTTL

\* C13: active expiration liveness. Once the expiry instant of a key has
\* passed, the key is eventually gone from both maps unless a caller accesses
\* it: with a fairly scheduled background worker, a key that no caller
\* touches is removed by the worker's pass.
C13_ActiveExpiry ==
    \A k \in ConcKeys : (Passed(k) /\ Stored(k)) ~> (Removed(k) \/ Accessed(k))

\* the background worker holds the lock for its pass, the key's instant has
\* passed, the key is still in the maps and no caller has a call in progress
C13_Witness ==
    \E k \in ConcKeys :
        /\ pc["sweeper"] = "crit"
        /\ Passed(k) /\ Stored(k)
        /\ \A t \in Threads : pc[t] = "idle"

\* C14: multi-value push order. After LPush(k, v1, ..., vn) the list at k is
\* v1, ..., vn followed by the elements it held before the call; after a single
\* such call on an absent key the RPop calls return vn, ..., v1.
C14_Step ==
    LET p == cur[Main]
        q == cur'[Main]
    IN  /\ Len(q.pushed) = Len(p.pushed) + 1 =>
               data'[p.key].list = q.pushed[Len(q.pushed)] \o data[p.key].list
        /\ Len(q.pushed) = 1 =>
               /\ Len(q.got) <= Len(q.pushed[1])
               /\ q.got = SubSeq(Reverse(q.pushed[1]), 1, Len(q.got))
        /\ (Len(q.pushed) = 1 /\ pc'[Main] = "done") => q.got = Reverse(q.pushed[1])

C15_MultiPushFIFO ==
    (pc[Main] = "done" /\ Len(cur[Main].pushed) = 1) =>
        cur[Main].got = cur[Main].pushed[1]

\* every LPush call of the program carried one value
SinglePushes(p) == \A i \in 1..Len(p.pushed) : Len(p.pushed[i]) = 1

\* C16: list as queue. After a series of single-value LPush calls on an absent
\* key, the RPop calls return the values in the order they were pushed, each
\* once, and the RPop after the last value answers not-found.
C16_SinglePushFIFO ==
    LET p == cur[Main] IN
        SinglePushes(p) =>
            /\ Len(p.got) <= Len(p.pushed)
            /\ p.got = SubSeq(Flat(p.pushed), 1, Len(p.got))
            /\ pc[Main] = "done" =>
                   /\ p.got = Flat(p.pushed)
                   /\ last.op = "RPop" /\ ~last.ret.ok
                   /\ data[p.key].list = <<>>

\* three single-value pushes, not all of the same value, have been consumed
\* and the next RPop has answered not-found
C16_Witness ==
    LET p == cur[Main] IN
        /\ pc[Main] = "done" /\ SinglePushes(p)
        /\ Len(p.pushed) = 3 /\ p.pushed[1] # p.pushed[2]
        /\ p.got = Flat(p.pushed)

\* the distinct values among the arguments of a call
Distinct(members) == {members[i] : i \in 1..Len(members)}

\* C17: set idempotence. On a key that is absent or holds a set,
\* SAdd(k, m1..mn) returns the number of distinct members among m1..mn that the
\* stored set did not hold, the set grows by exactly those members, and a call
\* whose members are all present returns 0 and leaves the set as it was.
C17_Step ==
    \A k \in CollKeys, members \in ArgLists :
        (SAdd(k, members) /\ data[k].kind \in {"none", "set"}) =>
            LET fresh == Distinct(members) \ data[k].set IN
                /\ last'.ret.n = Cardinality(fresh)
                /\ data'[k].set = data[k].set \cup fresh
                /\ Cardinality(data'[k].set) = Cardinality(data[k].set) + last'.ret.n
                /\ fresh = {} => (last'.ret.n = 0 /\ data'[k].set = data[k].set)

C17_SetIdempotence == [][C17_Step]_vars

\* SAdd has just answered 1 and the set holds two members: one was there
\* before, or was repeated in the call
C17_Witness ==
    \E k \in CollKeys :
        /\ last.op = "SAdd" /\ last.key = k /\ last.ret.n = 1
        /\ data[k].kind = "set" /\ Cardinality(data[k].set) = 2

\* C18: idempotent deletion. Del answers true exactly when the key had an
\* entry; afterwards the key has neither an entry nor an expiry record, so a
\* second Del right after answers false; Del on an absent key changes nothing.
C18_Step ==
    \A k \in Keys :
        Called("Del", k) =>
            /\ last'.ret.ok = Stored(k)
            /\ data'[k] = Absent /\ ttl'[k] = NoTTL
            /\ ~Stored(k) => (data' = data /\ ttl' = ttl)
            /\ LET again == DelOp(data', ttl', now', k) IN
                   /\ ~again.ret.ok
                   /\ again.data = data' /\ again.ttl = ttl'

C18_IdempotentDel == [][C18_Step]_vars

\* Del has just answered true for a key, at a time when a record made by
\* Expire could have been pending, and the key is gone from both maps
C18_Witness ==
    \E k \in Keys :
        /\ last.op = "Del" /\ last.key = k /\ last.ret.ok
        /\ data[k] = Absent /\ ttl[k] = NoTTL /\ now > 0

\* C19: no external aliasing. The collection a caller got from HGetAll or
\* SMembers is not changed by a later HSet or SAdd on the key, and a caller's
\* write to it does not change the store.
C19_NoAliasing ==
    \A k \in CollKeys :
        /\ (last.op = "HGetAll" /\ last.key = k /\ last.ret.ok) =>
               \A f \in Fields, v \in Vals :
                   /\ Held(last.ret, k, HSetOp(data, ttl, now, k, f, v).data) = last.ret.hash
                   /\ CallerWrites(last.ret, k, data, f, v) = data
        /\ (last.op = "SMembers" /\ last.key = k /\ last.ret.ok) => ~last.ret.shared

\* what the caller of Get receives: the two return values
Received(r) == <<r.val, r.ok>>

\* C20: Get on a live key holding a hash, list or set gives its caller an
\* outcome that differs from the not-found outcome of an absent or expired
\* key, and leaves the stored value as it was.
C20_Step ==
    \A k \in Keys :
        (Called("Get", k) /\ Live(k) /\ data[k].kind \in {"hash", "list", "set"}) =>
            /\ Received(last'.ret) # Received(GetOp([data EXCEPT ![k] = Absent], ttl, now, k).ret)
            /\ data'[k] = data[k] /\ ttl'[k] = ttl[k]

C20_GetTypeMismatch == [][C20_Step]_vars

\* the keys that have an entry and no passed expiry instant
LiveKeys == {k \in Keys : Live(k)}

\* C21: Keys returns exactly the keys that are live at the time of the call
\* (an entry, and no expiry record or one whose instant has not passed), and
\* DBSize returns the number of those keys.
C21_Step ==
    /\ (last = NoCall /\ last'.op = "Keys") => last'.ret.set = LiveKeys
    /\ (last = NoCall /\ last'.op = "DBSize") => last'.ret.n = Cardinality(LiveKeys)

C21_KeysExactlyLive == [][C21_Step]_vars

\* Keys has just listed one key out of two known to the store at a later
\* time than the start: the other key has no entry any more
C21_Witness ==
    /\ last.op = "Keys" /\ now > 0
    /\ Cardinality(last.ret.set) = 1
    /\ \E k \in Keys : ~Stored(k) /\ k \notin last.ret.set
    /\ \A k \in last.ret.set : Stored(k) /\ ttl[k] # NoTTL

CollWrites == {"HSet", "LPush", "RPop", "SAdd"}

\* C22: per-key TTL state machine. HSet, LPush, RPop and SAdd on a live key
\* with an expiry record leave the record as it is; a record disappears while
\* its key keeps an entry only in a Set call; a record appears or changes its
\* instant only in an Expire call.
C22_Step ==
    \A k \in Keys :
        /\ \A op \in CollWrites :
               (Called(op, k) /\ Live(k) /\ ttl[k] # NoTTL) => ttl'[k] = ttl[k]
        /\ (ttl[k] # NoTTL /\ ttl'[k] = NoTTL /\ data'[k].kind # "none") => Called("Set", k)
        /\ (ttl'[k] # NoTTL /\ ttl'[k] # ttl[k]) => Called("Expire", k)

C22_TTLStateMachine == [][C22_Step]_vars

\* a write to a collection has just returned on a key that holds a list and
\* still has its expiry record, which has not passed
C22_Witness ==
    \E k \in Keys :
        /\ last.op \in CollWrites /\ last.key = k
        /\ data[k].kind = "list" /\ Len(data[k].list) > 0
        /\ ttl[k] # NoTTL /\ ~Passed(k)

\* key k is out of sight at instant n on the maps d, tt: Get answers
\* not-found, Keys does not list it and DBSize does not count it
OutOfSight(d, tt, n, k) ==
    /\ ~GetOp(d, tt, n, k).ret.ok
    /\ k \notin ListedAt(d, tt, n)
    /\ CountedAt(d, tt, n) = CountedAt([d EXCEPT ![k] = Absent], [tt EXCEPT ![k] = NoTTL], n)

\* this step is Expire(k, 0) on a live string key
ExpiresNow(k) == Expire(k, 0) /\ Live(k) /\ data[k].kind = "string"

\* C23: zero TTL means already expired. After Set(k, v) and Expire(k, 0), the
\* key is out of sight at every time at or after the Expire call.
C23_Step ==
    \A k \in Keys :
        ExpiresNow(k) => \A n \in now'..(MaxTime + 1) : OutOfSight(data', ttl', n, k)

C23_ZeroTTL == [][C23_Step]_vars

\* the workers inside the body of a write handler or of a sweep pass, and the
\* threads inside the body of a read handler
InWrite == {t \in Workers : pc[t] = "crit"}

InRead == {t \in Threads : pc[t] \in {"next", "check", "delData", "delTTL", "read"}}

C25_EveryCallReturns ==
    \A t \in Threads : (pc[t] \notin {"idle", "ret"}) ~> (pc[t] = "ret")

\* C26: a sweep pass removes from both maps exactly the keys whose recorded
\* expiry instant has passed at the time of the pass; a key whose instant has
\* not passed and a key without a record keep their value and their record.
C26_Step ==
    Sweep =>
        \A k \in Keys :
            IF ttl[k] # NoTTL /\ ttl[k] < now
            THEN data'[k] = Absent /\ ttl'[k] = NoTTL
            ELSE data'[k] = data[k] /\ ttl'[k] = ttl[k]

C26_SweepExact == [][C26_Step]_vars

\* the store holds a key whose instant has passed and a key whose instant is
\* the current one, and the pass run on it removes the first and keeps the
\* second
C26_Witness ==
    \E k \in Keys, j \in Keys :
        /\ last = NoCall
        /\ Stored(k) /\ Passed(k)
        /\ Stored(j) /\ ttl[j] = now
        /\ expireKeys(data, ttl, now).data[k] = Absent
        /\ expireKeys(data, ttl, now).ttl[k] = NoTTL
        /\ expireKeys(data, ttl, now).data[j] = data[j]
        /\ expireKeys(data, ttl, now).ttl[j] = ttl[j]

\* C27: hash round trip. After HSet(k, f, v) on an absent key or on a live
\* hash key, HGet(k, f) returns (v, found), HGetAll(k) holds f with v, and the
\* other fields of k are as before; HGet on a field that was never set, or on
\* an absent key, returns not-found.
C27_Step ==
    \A k \in CollKeys, f \in Fields :
        /\ \A v \in Vals :
               (HSet(k, f, v) /\ (~Stored(k) \/ (Live(k) /\ data[k].kind = "hash"))) =>
                   /\ HGetOp(data', ttl', now', k, f).ret.ok
                   /\ HGetOp(data', ttl', now', k, f).ret.val = v
                   /\ HGetAllOp(data', ttl', now', k).ret.ok
                   /\ HGetAllOp(data', ttl', now', k).ret.hash[f] = v
                   /\ \A g \in Fields \ {f} :
                          /\ data'[k].hash[g] = data[k].hash[g]
                          /\ HGetAllOp(data', ttl', now', k).ret.hash[g] = data[k].hash[g]
        /\ (HGet(k, f) /\ (~Stored(k) \/ (data[k].kind = "hash" /\ data[k].hash[f] = Nil))) =>
               (~last'.ret.ok /\ last'.ret.val = "")

C27_HashRoundTrip == [][C27_Step]_vars

\* HSet has just returned on a hash that holds two fields with different
\* values, and HGet finds each of them
C27_Witness ==
    \E k \in CollKeys :
        /\ last.op = "HSet" /\ last.key = k
        /\ data[k].kind = "hash"
        /\ \A f \in Fields : HGetOp(data, ttl, now, k, f).ret.ok
        /\ \E f \in Fields, g \in Fields : data[k].hash[f] # data[k].hash[g]

\* C28: Del on a key whose entry is still stored but whose expiry instant has
\* passed answers false, and afterwards the key has neither an entry nor an
\* expiry record.
C28_Step ==
    \A k \in Keys :
        (Called("Del", k) /\ Stored(k) /\ Passed(k)) =>
            /\ ~last'.ret.ok
            /\ data'[k] = Absent /\ ttl'[k] = NoTTL

C28_DelExpiredIsAbsent == [][C28_Step]_vars

\* the key has an expiry record and no entry
Orphan(k) == ttl[k] # NoTTL /\ data[k].kind = "none"

\* the threads that hold the read lock and have a read of the maps ahead
Observers == {u \in Threads : pc[u] \in {"next", "check", "read"}}

\* C29: expiry index invariant. No thread can find an expiry record for a key
\* without an entry in the data map: whenever such a record exists (between
\* the two deletions of one handler), no other thread is reading the maps.
C29_NoOrphanRecord == \A k \in Keys : Orphan(k) => Observers = {}

\* C30: no premature expiry. A key loses its entry only in a Del call, or at
\* a time strictly after the expiry instant currently recorded for it; a key
\* without a record loses its entry only in a Del call.
C30_Step ==
    \A k \in Keys :
        (Stored(k) /\ data'[k].kind = "none") => (Called("Del", k) \/ Passed(k))

C30_NoPrematureExpiry == [][C30_Step]_vars

\* a Get has just found its key expired and removed it, while another key
\* whose recorded instant is the current one is still stored
C30_Witness ==
    \E k \in Keys, j \in Keys :
        /\ last.op = "Get" /\ last.key = k /\ last.ret.path = "expired"
        /\ ~Stored(k)
        /\ Stored(j) /\ ttl[j] = now

\* C31: liveness is judged the same way by TTL and by Keys. In every
\* reachable state and for every key, a TTL call made at the current instant
\* answers -2 exactly when a Keys call made at that same instant does not list
\* the key; at the recorded expiry instant itself both still see the key.
C31_SameLiveness ==
    \A k \in Keys :
        (TTLOp(data, ttl, now, k).ret.n = -2) <=> (k \notin ListedAt(data, ttl, now))

\* TTL has just answered for a key whose recorded expiry instant is the
\* current one: the answer is 0 seconds, and Keys lists the key
C31_Witness ==
    \E k \in Keys :
        /\ last.op = "TTL" /\ last.key = k /\ last.ret.n = 0
        /\ Stored(k) /\ ttl[k] = now /\ now > 0
        /\ k \in ListedAt(data, ttl, now)

\* C32: RPop on a live list of length n >= 1 returns its last element and
\* leaves the first n-1 elements in order; the key is never removed: it stays
\* as a list (empty after the last pop) that Keys lists and DBSize counts, with
\* its expiry record as it was; RPop on a live empty list returns not-found
\* and changes nothing.
C32_Step ==
    \A k \in Keys :
        (Called("RPop", k) /\ Live(k) /\ data[k].kind = "list") =>
            LET l == data[k].list IN
            IF Len(l) >= 1
            THEN /\ last'.ret.ok /\ last'.ret.val = l[Len(l)]
                 /\ data'[k] = ListVal(SubSeq(l, 1, Len(l) - 1))
                 /\ ttl'[k] = ttl[k]
                 /\ k \in ListedAt(data', ttl', now')
                 /\ CountedAt(data', ttl', now') = CountedAt(data, ttl, now)
            ELSE /\ ~last'.ret.ok /\ last'.ret.val = ""
                 /\ data' = data /\ ttl' = ttl
                 /\ k \in ListedAt(data', ttl', now')

C32_PopKeepsKey == [][C32_Step]_vars

\* RPop has just returned the only element of a list that has an expiry
\* record: the key holds the empty list, keeps its record and is listed
C32_Witness ==
    \E k \in Keys :
        /\ last.op = "RPop" /\ last.key = k /\ last.ret.ok
        /\ data[k] = ListVal(<<>>)
        /\ ttl[k] # NoTTL
        /\ k \in ListedAt(data, ttl, now)
        /\ RPopOp(data, ttl, now, k).ret.path = "empty"

\* the handlers that take a key
KeyOps ==
    {"Set", "Get", "HSet", "HGet", "HGetAll", "LPush", "RPop", "SAdd", "SMembers",
     "Expire", "TTL", "Del"}

\* C33: key independence. A call of Set, Get, HSet, HGet, HGetAll, LPush,
\* RPop, SAdd, SMembers, Expire, TTL or Del on a key leaves the value and the
\* expiry record of every other key as they were.
C33_Step ==
    \A k \in Keys, op \in KeyOps :
        Called(op, k) =>
            \A j \in Keys \ {k} : data'[j] = data[j] /\ ttl'[j] = ttl[j]

C33_KeyIndependence == [][C33_Step]_vars

\* a read has just found its key expired and removed it, while another key
\* whose instant has passed as well is still stored with its record
C33_Witness ==
    \E k \in Keys, j \in Keys :
        /\ j # k
        /\ last.op \in KeyOps /\ last.key = k /\ last.ret.path = "expired"
        /\ ~Stored(k)
        /\ Stored(j) /\ Passed(j)

\* C34: Set overwrites unconditionally. Set(k, v) returns normally whatever k
\* held before (nothing, a string, a hash, a list or a set, with or without an
\* expiry record, passed or not); afterwards k holds the string v and has no
\* expiry record, and a Get(k) made right after returns (v, found).
C34_Step ==
    \A k \in Keys, v \in Vals :
        Set(k, v) =>
            /\ ~panicked'
            /\ data'[k] = StringVal(v) /\ ttl'[k] = NoTTL
            /\ Received(GetOp(data', ttl', now', k).ret) = <<v, TRUE>>

C34_SetOverwrites == [][C34_Step]_vars

\* the client is about to call while a key holds a non-empty list whose
\* expiry instant has passed: Set on it stores the string without a record
C34_Witness ==
    \E k \in Keys, v \in Vals :
        /\ Ready
        /\ data[k].kind = "list" /\ Len(data[k].list) > 0 /\ Passed(k)
        /\ SetOp(data, ttl, now, k, v).data[k] = StringVal(v)
        /\ SetOp(data, ttl, now, k, v).ttl[k] = NoTTL
        /\ ENABLED Set(k, v)

\* the handlers that take the lock in shared mode
ReadCalls == KeyReads \cup {"TTL", "Keys", "DBSize"}

\* no stored key has an expiry instant in the past
AllLive == \A j \in Keys : Stored(j) => ~Passed(j)

\* C35: reads are pure on live data. When no stored key has an expiry instant
\* in the past, a call of Get, HGet, HGetAll, SMembers, TTL, Keys or DBSize
\* leaves the data map and the expiry map exactly as they were, whatever it
\* returns (a shape mismatch and a missing key included).
C35_Step ==
    (AllLive /\ last = NoCall /\ last'.op \in ReadCalls) => (data' = data /\ ttl' = ttl)

C35_PureReads == [][C35_Step]_vars

\* Get has just reported a shape mismatch on a key that holds a non-empty
\* list and whose recorded expiry instant is the current one: the list and
\* the record are still there
C35_Witness ==
    \E k \in Keys :
        /\ last.op = "Get" /\ last.key = k /\ last.ret.path = "wrongtype"
        /\ AllLive /\ now > 0
        /\ data[k].kind = "list" /\ Len(data[k].list) > 0
        /\ ttl[k] = now

====
